---- MODULE Spec2Model ----
(***************************************************************************)
(* InhibitScreensaver: main.c as a state machine.                          *)
(*                                                                         *)
(* One process, one thread.  The state is main's locals and the three      *)
(* file-scope statics, the program counter, and a record of what the       *)
(* process has done to its environment: the D-Bus method calls it sent,    *)
(* the lines it wrote to stderr, the processes it spawned and the number   *)
(* of waitpid calls it made.  The environment (the bus, the kernel, the    *)
(* child) answers each call nondeterministically.                          *)
(***************************************************************************)
EXTENDS Integers, Sequences, FiniteSets, TLC

\* ---------------------------------------------------------------- bounds
\* How many times waitpid may fail with EINTR before the child is reaped.
MaxInterrupts == 2
\* How many times pause() may return in the idle loop.
MaxWakeups == 2

\* ------------------------------------------------------------- constants
NULL == "(null)"
ENOENT == 2
EINTR == 4
ECHILD == 10
ECONNREFUSED == 111

\* Values getenv("INHIBIT_REASON") and getenv("INHIBIT_DEBUG") may return.
ReasonEnv == {NULL, "X", ""}
DebugEnv == {NULL, "1"}
\* Argument vectors: argv[0] is the program's own name.
ArgVectors == {<<"prog">>, <<"prog", "true">>, <<"prog", "sh", "-c">>}
\* Return values of sd_bus_open_user: >= 0 on success, -errno on failure.
OpenRets == {0, -ECONNREFUSED}
\* Return values of sd_bus_call_method: >= 0 on success, -errno on failure.
CallRets == {1, -ENOENT}
\* Return values of posix_spawnp: 0 on success, an errno on failure.
SpawnRets == {0, ENOENT}
\* Process identifiers the kernel may hand out for the child.
Pids == {4242}

VARIABLES
    env_reason,      \* environment: INHIBIT_REASON
    env_debug,       \* environment: INHIBIT_DEBUG
    argv,            \* argument vector, argv[1] is C's argv[0]
    verbose_output,  \* static bool verbose_output
    inhibit_reason,  \* static const char *inhibit_reason
    application,     \* static const char *application
    pc,              \* position in main
    bus,             \* sd_bus *bus: NULL, "open" or "released"
    bus_opens,       \* number of sd_bus_open_user calls made
    ret,             \* int ret
    calls,           \* D-Bus method calls sent, in order
    outcomes,        \* return values of the three inhibit_via_* functions
    stderr,          \* lines written to the error stream
    spawns,          \* posix_spawnp calls made, in order
    child_pid,       \* pid_t child_pid
    child_outcome,   \* how the child really ended (known to the kernel)
    wstatus,         \* int wstatus
    wstatus_set,     \* has waitpid stored a status into wstatus
    rc,              \* const int rc
    wait_calls,      \* number of waitpid calls made
    interrupts,      \* number of waitpid calls that failed with EINTR
    wakeups,         \* number of times pause() returned
    exit_code        \* status the process exits with (valid when pc = "done")

vars == <<env_reason, env_debug, argv, verbose_output, inhibit_reason,
          application, pc, bus, bus_opens, ret, calls, outcomes, stderr,
          spawns, child_pid, child_outcome, wstatus, wstatus_set, rc,
          wait_calls, interrupts, wakeups, exit_code>>

config == <<verbose_output, inhibit_reason, application>>
environ == <<env_reason, env_debug, argv>>
child == <<spawns, child_pid, child_outcome, wstatus, wstatus_set, rc,
           wait_calls, interrupts>>

argc == Len(argv)
\* C indexes argv from 0.
Argv(i) == argv[i + 1]

Line(text, arg) == [text |-> text, arg |-> arg]

\* debug(): writes only when verbose_output is set.
debug(out, s) == IF verbose_output THEN Append(out, Line(s, 0)) ELSE out

\* exit status seen by the parent of this process: the low 8 bits.
ExitStatus(n) == n % 256

\* __attribute__((cleanup(sd_bus_unrefp))) on bus, run when main returns.
sd_bus_unrefp(b) == IF b = "open" THEN "released" ELSE b

NoOutcome == [kind |-> "none", n |-> 0, core |-> FALSE]

Init ==
    /\ env_reason \in ReasonEnv
    /\ env_debug \in DebugEnv
    /\ argv \in ArgVectors
    /\ verbose_output = FALSE
    /\ inhibit_reason = NULL
    /\ application = NULL
    /\ pc = "config"
    /\ bus = NULL
    /\ bus_opens = 0
    /\ ret = 0
    /\ calls = <<>>
    /\ outcomes = <<>>
    /\ stderr = <<>>
    /\ spawns = <<>>
    /\ child_pid = 0
    /\ child_outcome = NoOutcome
    /\ wstatus = 0
    /\ wstatus_set = FALSE
    /\ rc = 0
    /\ wait_calls = 0
    /\ interrupts = 0
    /\ wakeups = 0
    /\ exit_code = 0

\* ------------------------------------------------- runtime configuration
ResolveReason_NoEnv(e) == "A game is running"
\* getenv("INHIBIT_REASON") ?: "A game is running"
ResolveReason(e) == IF e # NULL THEN e ELSE "A game is running"

\* argc < 2 ? argv[0] : argv[1]
ResolveApplication == IF argc < 2 THEN Argv(0) ELSE Argv(1)

resolve_config ==
    /\ pc = "config"
    /\ verbose_output' = (env_debug # NULL)
    /\ inhibit_reason' = ResolveReason(env_reason)
    /\ application' = ResolveApplication
    /\ pc' = "open"
    /\ UNCHANGED <<environ, bus, bus_opens, ret, calls, outcomes, stderr,
                   child, wakeups, exit_code>>

\* ------------------------------------------------------- session channel
open_bus_NoCheck ==
    /\ pc = "open"
    /\ \E r \in OpenRets :
        /\ ret' = r
        /\ bus_opens' = bus_opens + 1
        /\ bus' = IF r < 0 THEN NULL ELSE "open"
        /\ pc' = "portal"
        /\ UNCHANGED <<stderr, exit_code>>
    /\ UNCHANGED <<environ, config, calls, outcomes, child, wakeups>>

\* sd_bus_open_user(&bus); on failure report and return 1.
open_bus ==
    /\ pc = "open"
    /\ \E r \in OpenRets :
        /\ ret' = r
        /\ bus_opens' = bus_opens + 1
        /\ IF r < 0
           THEN /\ stderr' = Append(stderr, Line("Failed to connect to user bus", -r))
                /\ exit_code' = ExitStatus(1)
                /\ bus' = sd_bus_unrefp(NULL)
                /\ pc' = "done"
           ELSE /\ bus' = "open"
                /\ pc' = "portal"
                /\ UNCHANGED <<stderr, exit_code>>
    /\ UNCHANGED <<environ, config, calls, outcomes, child, wakeups>>

\* --------------------------------------------------- inhibition attempts
PortalCall ==
    [destination |-> "org.freedesktop.portal.Desktop",
     path        |-> "/org/freedesktop/portal/desktop",
     interface   |-> "org.freedesktop.portal.Inhibit",
     member      |-> "Inhibit",
     types       |-> "sua{sv}",
     args        |-> <<"", 8, 1, "reason", "s", inhibit_reason>>]

ScreenSaverCall ==
    [destination |-> "org.freedesktop.ScreenSaver",
     path        |-> "/org/freedesktop/ScreenSaver",
     interface   |-> "org.freedesktop.ScreenSaver",
     member      |-> "Inhibit",
     types       |-> "ss",
     args        |-> <<inhibit_reason, application>>]

PowerManagementCall ==
    [destination |-> "org.freedesktop.PowerManagement.Inhibit",
     path        |-> "/org/freedesktop/PowerManagement/Inhibit",
     interface   |-> "org.freedesktop.PowerManagement.Inhibit",
     member      |-> "Inhibit",
     types       |-> "ss",
     args        |-> <<inhibit_reason, application>>]

\* The body shared by the three inhibit_via_* functions: trace, call,
\* report, return a bool that main discards.
Attempt(trying, call, failed, r) ==
    /\ calls' = Append(calls, call)
    /\ outcomes' = Append(outcomes, r >= 0)
    /\ stderr' = IF r < 0
                 THEN Append(debug(debug(stderr, trying), "Failed."),
                             Line(failed, -r))
                 ELSE debug(debug(stderr, trying), "Ok.")

inhibit_via_inhibit_portal_StopOnSuccess ==
    /\ pc = "portal"
    /\ \E r \in CallRets :
        /\ Attempt("Trying to inhibit idle via org.freedesktop.portal.Inhibit interface: ",
                   PortalCall, "Failed to inhibit idle", r)
        /\ pc' = IF r >= 0 THEN "check_args" ELSE "screen_saver"
    /\ UNCHANGED <<environ, config, bus, bus_opens, ret, child, wakeups,
                   exit_code>>

inhibit_via_inhibit_portal ==
    /\ pc = "portal"
    /\ \E r \in CallRets :
        Attempt("Trying to inhibit idle via org.freedesktop.portal.Inhibit interface: ",
                PortalCall, "Failed to inhibit idle", r)
    /\ pc' = "screen_saver"
    /\ UNCHANGED <<environ, config, bus, bus_opens, ret, child, wakeups,
                   exit_code>>

inhibit_via_screen_saver ==
    /\ pc = "screen_saver"
    /\ \E r \in CallRets :
        Attempt("Trying to inhibit screensaver via org.freedesktop.ScreenSaver interface: ",
                ScreenSaverCall, "Failed to inhibit screensaver", r)
    /\ pc' = "power_management"
    /\ UNCHANGED <<environ, config, bus, bus_opens, ret, child, wakeups,
                   exit_code>>

inhibit_via_power_management_FatalOnFailure ==
    /\ pc = "power_management"
    /\ \E r \in CallRets :
        /\ Attempt("Trying to inhibit power management via org.freedesktop.PowerManagement.Inhibit interface: ",
                   PowerManagementCall, "Failed to inhibit power saving", r)
        /\ IF r < 0
           THEN /\ pc' = "done"
                /\ exit_code' = ExitStatus(1)
                /\ bus' = sd_bus_unrefp(bus)
           ELSE /\ pc' = "check_args"
                /\ UNCHANGED <<exit_code, bus>>
    /\ UNCHANGED <<environ, config, bus_opens, ret, child, wakeups>>

inhibit_via_power_management ==
    /\ pc = "power_management"
    /\ \E r \in CallRets :
        Attempt("Trying to inhibit power management via org.freedesktop.PowerManagement.Inhibit interface: ",
                PowerManagementCall, "Failed to inhibit power saving", r)
    /\ pc' = "check_args"
    /\ UNCHANGED <<environ, config, bus, bus_opens, ret, child, wakeups,
                   exit_code>>

\* ------------------------------------------------------ idle-only branch
\* if (argc < 2) { while (true) pause(); }
check_args ==
    /\ pc = "check_args"
    /\ pc' = IF argc < 2 THEN "pause" ELSE "spawn"
    /\ UNCHANGED <<environ, config, bus, bus_opens, ret, calls, outcomes,
                   stderr, child, wakeups, exit_code>>

pause_loop_ReturnsOnce ==
    /\ pc = "pause"
    /\ wakeups < MaxWakeups
    /\ wakeups' = wakeups + 1
    /\ pc' = "done"
    /\ exit_code' = ExitStatus(0)
    /\ bus' = sd_bus_unrefp(bus)
    /\ UNCHANGED <<environ, config, bus_opens, ret, calls, outcomes,
                   stderr, child>>

\* pause() returned because a signal handler ran; the loop calls it again.
pause_loop ==
    /\ pc = "pause"
    /\ wakeups < MaxWakeups
    /\ wakeups' = wakeups + 1
    /\ pc' = "pause"
    /\ UNCHANGED <<environ, config, bus, bus_opens, ret, calls, outcomes,
                   stderr, child, exit_code>>

\* ----------------------------------------------------------------- spawn
SpawnRequest == [file |-> Argv(1), args |-> SubSeq(argv, 2, Len(argv))]

spawn_child_IgnoreFailure ==
    /\ pc = "spawn"
    /\ \E r \in SpawnRets, p \in Pids :
        /\ ret' = r
        /\ spawns' = Append(spawns, SpawnRequest)
        /\ stderr' = debug(debug(stderr, "Starting process: "), "OK")
        /\ child_pid' = p
        /\ pc' = "wait"
        /\ UNCHANGED <<exit_code, bus>>
    /\ UNCHANGED <<environ, config, bus_opens, calls, outcomes,
                   child_outcome, wstatus, wstatus_set, rc, wait_calls,
                   interrupts, wakeups>>

spawn_child_ReleasesBus ==
    /\ pc = "spawn"
    /\ \E r \in SpawnRets, p \in Pids :
        /\ ret' = r
        /\ spawns' = Append(spawns, SpawnRequest)
        /\ IF r # 0
           THEN /\ stderr' = Append(debug(stderr, "Starting process: "),
                                    Line("Failed to start process", r))
                /\ exit_code' = ExitStatus(1)
                /\ bus' = sd_bus_unrefp(bus)
                /\ pc' = "done"
                /\ UNCHANGED child_pid
           ELSE /\ stderr' = debug(debug(stderr, "Starting process: "), "OK")
                /\ child_pid' = p
                /\ bus' = sd_bus_unrefp(bus)
                /\ pc' = "wait"
                /\ UNCHANGED exit_code
    /\ UNCHANGED <<environ, config, bus_opens, calls, outcomes,
                   child_outcome, wstatus, wstatus_set, rc, wait_calls,
                   interrupts, wakeups>>

\* posix_spawnp(&child_pid, argv[1], NULL, NULL, argv + 1, environ);
\* a nonzero return is reported and main returns 1.
spawn_child ==
    /\ pc = "spawn"
    /\ \E r \in SpawnRets, p \in Pids :
        /\ ret' = r
        /\ spawns' = Append(spawns, SpawnRequest)
        /\ IF r # 0
           THEN /\ stderr' = Append(debug(stderr, "Starting process: "),
                                    Line("Failed to start process", r))
                /\ exit_code' = ExitStatus(1)
                /\ bus' = sd_bus_unrefp(bus)
                /\ pc' = "done"
                /\ UNCHANGED child_pid
           ELSE /\ stderr' = debug(debug(stderr, "Starting process: "), "OK")
                /\ child_pid' = p
                /\ pc' = "wait"
                /\ UNCHANGED <<exit_code, bus>>
    /\ UNCHANGED <<environ, config, bus_opens, calls, outcomes,
                   child_outcome, wstatus, wstatus_set, rc, wait_calls,
                   interrupts, wakeups>>

\* ------------------------------------------------------------------ wait
Outcome(kind, n, core) == [kind |-> kind, n |-> n, core |-> core]

\* Ways the child's state can change.
ChildOutcomes ==
    {Outcome("exited", 0, FALSE), Outcome("exited", 1, FALSE),
     Outcome("exited", 7, FALSE), Outcome("exited", 255, FALSE),
     Outcome("signaled", 9, FALSE), Outcome("signaled", 15, FALSE),
     Outcome("signaled", 11, TRUE), Outcome("signaled", 64, FALSE),
     Outcome("stopped", 19, FALSE), Outcome("continued", 0, FALSE)}

\* The status word the kernel stores for an outcome.
EncodeStatus(o) ==
    CASE o.kind = "exited"    -> (o.n % 256) * 256
      [] o.kind = "signaled"  -> o.n + (IF o.core THEN 128 ELSE 0)
      [] o.kind = "stopped"   -> o.n * 256 + 127
      [] o.kind = "continued" -> 65535

\* What an int that was never written may hold.
IndeterminateStatus == {EncodeStatus(o) : o \in ChildOutcomes}

\* <sys/wait.h>
WIFEXITED(s) == s % 128 = 0
WEXITSTATUS(s) == (s \div 256) % 256
WIFSIGNALED(s) == (s % 128) \notin {0, 127}
WTERMSIG(s) == s % 128

\* What one waitpid(child_pid, &wstatus, 0) call can do: reap the child,
\* fail with EINTR, or fail for another reason.
WaitResults ==
    {[r |-> child_pid, errno |-> 0, outcome |-> o] : o \in ChildOutcomes}
    \cup {[r |-> -1, errno |-> e, outcome |-> NoOutcome] :
            e \in (IF interrupts < MaxInterrupts THEN {EINTR} ELSE {})
                  \cup {ECHILD}}

TEMP_FAILURE_RETRY_Never(r, errno) == FALSE
\* do r = expr; while (r == -1L && errno == EINTR);
TEMP_FAILURE_RETRY(r, errno) == r = -1 /\ errno = EINTR

waitpid_retry ==
    /\ pc = "wait"
    /\ \E res \in WaitResults :
        /\ wait_calls' = wait_calls + 1
        /\ interrupts' = IF res.errno = EINTR THEN interrupts + 1 ELSE interrupts
        /\ IF TEMP_FAILURE_RETRY(res.r, res.errno)
           THEN /\ pc' = "wait"
                /\ UNCHANGED <<rc, wstatus, wstatus_set, child_outcome>>
           ELSE /\ pc' = "classify"
                /\ rc' = res.r
                /\ IF res.r > 0
                   THEN /\ wstatus' = EncodeStatus(res.outcome)
                        /\ wstatus_set' = TRUE
                        /\ child_outcome' = res.outcome
                   ELSE UNCHANGED <<wstatus, wstatus_set, child_outcome>>
    /\ UNCHANGED <<environ, config, bus, bus_opens, ret, calls, outcomes,
                   stderr, spawns, child_pid, wakeups, exit_code>>

\* -------------------------------------------------------- classification
ClassifyCode_NoOffset(s) ==
    IF WIFEXITED(s) THEN WEXITSTATUS(s)
    ELSE IF WIFSIGNALED(s) THEN WTERMSIG(s)
    ELSE 127

\* The value main returns for a status word.
ClassifyCode(s) ==
    IF WIFEXITED(s) THEN WEXITSTATUS(s)
    ELSE IF WIFSIGNALED(s) THEN WTERMSIG(s) + 128
    ELSE 127

\* What main writes to stderr for a status word.
ClassifyReport(s) ==
    IF WIFEXITED(s)
    THEN IF WEXITSTATUS(s) = 0
         THEN debug(stderr, "Child process exited normally")
         ELSE Append(stderr, Line("Child process exited with code", WEXITSTATUS(s)))
    ELSE IF WIFSIGNALED(s)
    THEN Append(stderr, Line("Child process killed by signal", WTERMSIG(s)))
    ELSE Append(stderr, Line("Child process exited abnormally", 0))

\* if (rc != 0) { classify wstatus } else { "does not exist", return 1 }.
\* wstatus is read whether or not waitpid stored into it.
classify ==
    /\ pc = "classify"
    /\ \E s \in (IF wstatus_set THEN {wstatus} ELSE IndeterminateStatus) :
        IF rc # 0
        THEN /\ stderr' = ClassifyReport(s)
             /\ exit_code' = ExitStatus(ClassifyCode(s))
        ELSE /\ stderr' = Append(stderr, Line("Child process does not exist", 0))
             /\ exit_code' = ExitStatus(1)
    /\ bus' = sd_bus_unrefp(bus)
    /\ pc' = "done"
    /\ UNCHANGED <<environ, config, bus_opens, ret, calls, outcomes, child,
                   wakeups>>

\* ---------------------------------------------------------- specification
Next ==
    \/ resolve_config
    \/ open_bus
    \/ inhibit_via_inhibit_portal
    \/ inhibit_via_screen_saver
    \/ inhibit_via_power_management
    \/ check_args
    \/ pause_loop
    \/ spawn_child
    \/ waitpid_retry
    \/ classify

Spec == Init /\ [][Next]_vars

\* ================================================================ claims
Portal == "org.freedesktop.portal.Desktop"
ScreenSaver == "org.freedesktop.ScreenSaver"
PowerManagement == "org.freedesktop.PowerManagement.Inhibit"

\* The services called so far, in call order.
Destinations == [i \in 1..Len(calls) |-> calls[i].destination]
\* The reason string carried by a call.
CallReason(c) == IF c.types = "ss" THEN c.args[1] ELSE c.args[6]

\* Positions of main after the third inhibition attempt has returned.
AfterInhibit == {"check_args", "pause", "spawn", "wait", "classify", "done"}
\* The session channel was opened successfully (now or earlier).
Opened == bus # NULL
\* waitpid reported a real state change of the child.
Reaped == child_outcome.kind # "none"

\* The exit code section 4.2 of the specification assigns to an outcome.
ExpectedCode(o) ==
    CASE o.kind = "exited" -> o.n
      [] o.kind = "signaled" -> 128 + o.n
      [] OTHER -> 127

\* C1: once the channel is open, the portal, screen-saver and
\* power-management attempts are each made exactly once, in that order,
\* whatever each attempt returned.
C1_ThreeAttemptsInOrder ==
    /\ pc = "portal" => Len(calls) = 0 /\ Len(outcomes) = 0
    /\ pc = "screen_saver" =>
          Destinations = <<Portal>> /\ Len(outcomes) = 1
    /\ pc = "power_management" =>
          Destinations = <<Portal, ScreenSaver>> /\ Len(outcomes) = 2
    /\ (pc \in AfterInhibit /\ Opened) =>
          /\ Destinations = <<Portal, ScreenSaver, PowerManagement>>
          /\ Len(outcomes) = 3

\* The first attempt failed, the second succeeded, and the third was
\* still made.
C1_Witness ==
    /\ pc = "check_args"
    /\ outcomes = <<FALSE, TRUE, FALSE>>
    /\ Len(calls) = 3

\* C2: when waitpid delivered a status, the exit code is determined by
\* the child's outcome alone: exit N gives N, signal S gives 128+S, any
\* other state change gives 127.
C2_ExitCodeFromStatus ==
    (pc = "done" /\ Reaped) =>
        /\ child_outcome.kind = "exited" => exit_code = child_outcome.n
        /\ child_outcome.kind = "signaled" => exit_code = 128 + child_outcome.n
        /\ child_outcome.kind \notin {"exited", "signaled"} => exit_code = 127

\* The child was killed by SIGKILL and the program exited with 137.
C2_Witness ==
    /\ pc = "done"
    /\ child_outcome.kind = "signaled"
    /\ child_outcome.n = 9
    /\ exit_code = 137

\* C3: with the channel open and a command given, exactly one spawn of
\* that command is attempted, after all three inhibition attempts have
\* returned and whatever they returned; there is never a second spawn.
C3_OneSpawnAfterInhibition ==
    /\ Len(spawns) <= 1
    /\ Len(spawns) = 1 =>
          /\ Len(outcomes) = 3
          /\ Len(calls) = 3
          /\ spawns[1].file = argv[2]
          /\ spawns[1].args = Tail(argv)
    /\ (argc >= 2 /\ Opened /\ pc \in {"wait", "classify", "done"}) =>
          Len(spawns) = 1
    /\ (argc >= 2 /\ Opened) => pc # "pause"

\* Every inhibition attempt failed and the command was spawned and ran
\* to its end.
C3_Witness ==
    /\ pc = "done"
    /\ outcomes = <<FALSE, FALSE, FALSE>>
    /\ Len(spawns) = 1
    /\ Reaped

\* C4: a waitpid call that fails with EINTR is retried and classifies
\* nothing; every call before the one that ends the wait was such an
\* interruption; and the exit code after any number of interruptions is
\* the one the child's outcome alone gives.
C4_InterruptedWaitRetried ==
    /\ [][interrupts' = interrupts + 1 =>
            /\ pc' = "wait"
            /\ UNCHANGED <<rc, wstatus, wstatus_set, child_outcome,
                           exit_code, stderr>>]_vars
    /\ [](pc = "wait" => wait_calls = interrupts)
    /\ [](pc = "classify" => wait_calls = interrupts + 1)
    /\ []((pc = "done" /\ Reaped) => exit_code = ExpectedCode(child_outcome))

\* The wait was interrupted at least once, then the child exited with 7
\* and so did the program.
C4_Witness ==
    /\ pc = "done"
    /\ interrupts >= 1
    /\ child_outcome.kind = "exited"
    /\ child_outcome.n = 7
    /\ exit_code = 7

\* C5: with no command and the channel open, the program goes from the
\* third attempt into the idle wait, re-enters it after every return of
\* pause(), spawns nothing and never exits.
C5_IdleWaitNeverReturns ==
    /\ []((argc < 2 /\ Opened) => (pc # "done" /\ Len(spawns) = 0))
    /\ []((argc < 2 /\ Opened /\ pc \in AfterInhibit) =>
            pc \in {"check_args", "pause"})
    /\ [][pc = "pause" => pc' = "pause"]_vars

\* pause() has returned and the program is in the idle wait again.
C5_Witness ==
    /\ pc = "pause"
    /\ wakeups >= 1
    /\ argc < 2

\* C6: if the channel cannot be opened the program reports it and exits
\* with 1 having made no inhibition attempt, no spawn and no wait; and an
\* inhibition attempt is only ever made on an opened channel.
C6_OpenFailureIsFatal ==
    /\ (pc \notin {"config", "open"} /\ ~Opened) =>
          /\ pc = "done"
          /\ exit_code = 1
          /\ ret < 0
          /\ Len(calls) = 0
          /\ Len(outcomes) = 0
          /\ Len(spawns) = 0
          /\ wait_calls = 0
          /\ wakeups = 0
          /\ Len(stderr) = 1
          /\ stderr[1].text = "Failed to connect to user bus"
    /\ Len(calls) > 0 => (Opened /\ bus_opens = 1)
    /\ pc \in {"portal", "screen_saver", "power_management"} => bus = "open"

\* The channel could not be opened although a command was given.
C6_Witness ==
    /\ pc = "done"
    /\ ~Opened
    /\ argc >= 2
    /\ exit_code = 1

\* C7: if posix_spawnp fails, the failure is the last thing reported, the
\* exit code is 1 and waitpid was never called; waitpid is called only
\* after a successful spawn.
C7_SpawnFailureIsFatal ==
    /\ (Len(spawns) = 1 /\ ret # 0) =>
          /\ pc = "done"
          /\ exit_code = 1
          /\ wait_calls = 0
          /\ Len(stderr) >= 1
          /\ stderr[Len(stderr)].text = "Failed to start process"
          /\ stderr[Len(stderr)].arg = ret
    /\ wait_calls > 0 => (Len(spawns) = 1 /\ ret = 0)

\* The executable was not found.
C7_Witness ==
    /\ pc = "done"
    /\ Len(spawns) = 1
    /\ ret = ENOENT
    /\ exit_code = 1

\* C8: if waitpid failed without delivering a status, the program exits
\* with 127.
C8_NoStatusGives127 ==
    (pc = "done" /\ wait_calls > 0 /\ ~wstatus_set) => exit_code = 127

\* C9: after startup the reason is the default "A game is running" when
\* INHIBIT_REASON is unset and its value otherwise, the application is the
\* command name or else the program's own name, neither changes again, and
\* every call carries them.
C9_ConfigurationFixed ==
    /\ [](pc # "config" =>
            /\ env_reason = NULL => inhibit_reason = "A game is running"
            /\ env_reason # NULL => inhibit_reason = env_reason
            /\ application = IF Len(argv) >= 2 THEN argv[2] ELSE argv[1])
    /\ [](\A i \in 1..Len(calls) :
            /\ CallReason(calls[i]) = inhibit_reason
            /\ calls[i].types = "ss" => calls[i].args[2] = application)
    /\ [][pc # "config" => UNCHANGED <<config, environ>>]_vars

\* INHIBIT_REASON unset and no command: the three calls carried the
\* default reason and the program's own name.
C9_Witness ==
    /\ Len(calls) = 3
    /\ env_reason = NULL
    /\ argc < 2
    /\ CallReason(calls[1]) = "A game is running"
    /\ CallReason(calls[3]) = "A game is running"
    /\ calls[2].args[2] = "prog"

\* C10: the channel is opened once, is open at every position from the
\* first attempt to the classification of the child's status and in the
\* idle wait, and is released only by main returning after a failed
\* spawn or after the classification.
C10_ChannelHeldUntilExit ==
    /\ [](bus_opens <= 1)
    /\ [](pc \in {"portal", "screen_saver", "power_management", "check_args",
                  "pause", "spawn", "wait", "classify"} =>
            (bus = "open" /\ bus_opens = 1))
    /\ [][(bus = "open" /\ bus' # "open") =>
            (pc \in {"spawn", "classify"} /\ pc' = "done"
             /\ bus' = "released")]_vars
    /\ [][bus # "open" /\ bus' = "open" => pc = "open"]_vars

\* The child is running, its wait has been interrupted, and the channel
\* is still open.
C10_Witness ==
    /\ pc = "wait"
    /\ interrupts >= 1
    /\ bus = "open"
====
